---- MODULE Spec2Model ----
(***************************************************************************)
(* The Caspian Co - client-side catalog.                                   *)
(*                                                                         *)
(* Model of the shared data layer CaspianData (src/women/js/home.js,       *)
(* lines 296-653): the memoized loader loadAllData, the scheduled-publish  *)
(* test isProductPublished and the derived views built on it.              *)
(*                                                                         *)
(* Conventions                                                             *)
(*  - A JavaScript string is a sequence of one-character strings, so that  *)
(*    toLowerCase, trim and includes are computed and not assumed.         *)
(*  - Time is counted in minutes (the code counts milliseconds; every      *)
(*    quantity it adds is a whole number of minutes).                      *)
(*  - A Date is a record [valid, time]; an Invalid Date has valid = FALSE  *)
(*    and every relational comparison with it is false (NaN).              *)
(*  - An absent optional field (sub_category, tags) is the empty sequence: *)
(*    the code tests both by truthiness and treats them alike.             *)
(***************************************************************************)
EXTENDS Integers, Sequences, FiniteSets, TLC

(***************************************************************************)
(* Bounds of the model                                                     *)
(***************************************************************************)
\* longest product file of the view specifications
MaxProducts == 2
\* number of clock ticks a behaviour may take
MaxTicks == 1
\* concurrent callers of loadAllData
NumCallers == 2
\* total number of loadAllData calls in one behaviour
MaxCalls == 3
\* longest search query
MaxQueryLen == 2
\* minutes between two readings of the clock
TickStep == 30
\* longest product file of the ordering specifications
MaxListed == 3

(***************************************************************************)
(* Program constants                                                       *)
(***************************************************************************)
\* istOffset = 5.5 * 60 * 60 * 1000 ms, in minutes
IstOffset == 330

(***************************************************************************)
(* Strings                                                                 *)
(***************************************************************************)
\* the characters a search query is typed with
Alphabet == {"A", " "}

\* all sequences over S of length at most n
RECURSIVE SeqsUpTo(_, _)
SeqsUpTo(S, n) ==
  IF n = 0 THEN {<<>>}
  ELSE LET shorter == SeqsUpTo(S, n - 1)
       IN  shorter \cup {Append(s, x) : s \in shorter, x \in S}

LowerChar(c) == IF c = "A" THEN "a" ELSE c

\* String.prototype.toLowerCase
toLowerCase(s) == [i \in 1..Len(s) |-> LowerChar(s[i])]

IsSpace(c) == c = " "

RECURSIVE TrimStart(_)
TrimStart(s) ==
  IF s # <<>> /\ IsSpace(Head(s)) THEN TrimStart(Tail(s)) ELSE s

RECURSIVE TrimEnd(_)
TrimEnd(s) ==
  IF s # <<>> /\ IsSpace(s[Len(s)]) THEN TrimEnd(SubSeq(s, 1, Len(s) - 1)) ELSE s

\* String.prototype.trim
trim(s) == TrimEnd(TrimStart(s))

\* String.prototype.includes
includes(s, sub) ==
  \E i \in 1..(Len(s) - Len(sub) + 1) : SubSeq(s, i, i + Len(sub) - 1) = sub

\* Array.prototype.includes
ArrayIncludes(arr, x) == \E i \in 1..Len(arr) : arr[i] = x

(***************************************************************************)
(* Dates                                                                   *)
(***************************************************************************)
InvalidDate == [valid |-> FALSE, time |-> 0]

DateOf(t) == [valid |-> TRUE, time |-> t]

\* DateGeq written with > : a product scheduled for this very minute waits
DateGt(a, b) == a.valid /\ b.valid /\ a.time > b.time

\* a >= b on two Dates: both are converted to numbers, NaN compares false
DateGeq(a, b) == a.valid /\ b.valid /\ a.time >= b.time

\* publish_at values of the product file
NoPublishAt == [kind |-> "absent", wall |-> 0]
BadPublishAt == [kind |-> "invalid", wall |-> 0]
PublishAt(w) == [kind |-> "datetime", wall |-> w]

\* ParseDate reading the wall-clock time as UTC whatever the browser's zone
ParseDateUtc(p, tz) ==
  IF p.kind = "datetime" THEN DateOf(p.wall) ELSE InvalidDate

\* new Date(str) for a zone-less date-time: the wall-clock reading is taken
\* in the browser's zone; tz is getTimezoneOffset() (UTC minus local)
ParseDate(p, tz) ==
  IF p.kind = "datetime" THEN DateOf(p.wall + tz) ELSE InvalidDate

\* getCurrentIST
getCurrentIST(nowUtc, tz) ==
  LET istOffset == IstOffset
      utcTime   == nowUtc + tz
  IN  DateOf(utcTime + istOffset)

isProductPublished(product, nowUtc, tz) ==
  IF product.publish_at.kind = "absent" THEN TRUE
  ELSE LET currentIST  == getCurrentIST(nowUtc, tz)
           publishTime == ParseDate(product.publish_at, tz)
       IN  DateGeq(currentIST, publishTime)

(***************************************************************************)
(* Products and categories                                                 *)
(***************************************************************************)
\* category ids, sub-categories and tags are strings the search looks into
CatA == <<"a">>
CatB == <<"b">>
CatC == <<"A", "b">>
CategoryIds == {CatA, CatB, CatC}

SubX == <<"a", "b">>
SubY == <<"b">>
TagP == <<"A">>
TagQ == <<"b", "a">>

ProductIds == {"p1", "p2", "p3"}

\* the scheduled publish_at of the files: the IST wall-clock reading (in
\* minutes) one tick after the clock of a behaviour starts at 0
PublishWall == IstOffset + TickStep

\* a product of womenproducts.json with the fields the data layer reads
Product(id, active, publish_at, category, featured) ==
  [id |-> id, active |-> active, publish_at |-> publish_at,
   category |-> category, sub_category |-> <<>>, tags |-> <<>>,
   featured |-> featured, added_date |-> PublishAt(0),
   name |-> <<"b", "A">>, description |-> <<"b">>]

Category(id) == [id |-> id, label |-> id]

NullHome == [isNull |-> TRUE, enabled |-> 0]
HomeFile == [isNull |-> FALSE, enabled |-> 1]

(***************************************************************************)
(* Array helpers                                                           *)
(***************************************************************************)
\* Array.prototype.slice(0, limit)
Slice(arr, limit) == SubSeq(arr, 1, IF limit < Len(arr) THEN limit ELSE Len(arr))

\* Array.prototype.filter
Filter(arr, Keep(_)) == SelectSeq(arr, Keep)

\* index of the first element satisfying Test, 0 when there is none
\* (Array.prototype.find returns that element, or undefined)
FindIndex(arr, Test(_)) ==
  IF \E i \in 1..Len(arr) : Test(arr[i])
  THEN CHOOSE i \in 1..Len(arr) :
         Test(arr[i]) /\ \A j \in 1..(i - 1) : ~Test(arr[j])
  ELSE 0

\* the rearrangements of arr, as sequences
Shuffles(arr) ==
  {[i \in 1..Len(arr) |-> arr[f[i]]] :
     f \in {g \in [1..Len(arr) -> 1..Len(arr)] :
              \A i, j \in 1..Len(arr) : g[i] = g[j] => i = j}}

(***************************************************************************)
(* Derived views of CaspianData                                            *)
(* The cache and the clock are passed explicitly: pd is productsData, cd   *)
(* is categoriesData, nowUtc the instant of the call, tz the browser's     *)
(* getTimezoneOffset().                                                    *)
(***************************************************************************)
getAllActiveProducts(pd, nowUtc, tz) ==
  LET Keep(product) == product.active = 1 /\ isProductPublished(product, nowUtc, tz)
  IN  Filter(pd, Keep)

\* getProductById looking among the visible products only
getProductByIdAmongActive(pd, id, nowUtc, tz) ==
  LET Test(p) == p.id = id /\ p.active = 1 /\ isProductPublished(p, nowUtc, tz)
      i == FindIndex(pd, Test)
  IN  IF i = 0 THEN <<>> ELSE <<pd[i]>>

\* the value returned is <<product>>, or <<>> for null
getProductById(pd, id, nowUtc, tz) ==
  LET Test(p) == p.id = id
      i == FindIndex(pd, Test)
  IN  IF i = 0 THEN <<>>
      ELSE IF pd[i].active # 1 \/ ~isProductPublished(pd[i], nowUtc, tz) THEN <<>>
      ELSE <<pd[i]>>

\* limit = 0 stands for the default null (both are falsy in "if (limit)")
getProductsByCategory(pd, category, limit, nowUtc, tz) ==
  LET Keep(p) == p.category = category
      products == Filter(getAllActiveProducts(pd, nowUtc, tz), Keep)
  IN  IF limit # 0 THEN Slice(products, limit) ELSE products

\* getFeaturedProducts filtering the cache itself
getFeaturedProductsOfCache(pd, nowUtc, tz) ==
  LET Keep(p) == p.featured = 1
  IN  Filter(pd, Keep)

getFeaturedProducts(pd, nowUtc, tz) ==
  LET Keep(p) == p.featured = 1
  IN  Filter(getAllActiveProducts(pd, nowUtc, tz), Keep)

\* CompareAdded with the operands exchanged, dateA - dateB: oldest first
CompareAddedAscending(a, b, tz) ==
  LET dateA == ParseDate(a.added_date, tz)
      dateB == ParseDate(b.added_date, tz)
  IN  IF dateA.valid /\ dateB.valid THEN dateA.time - dateB.time ELSE 0

\* the comparator of getRecentlyAddedProducts: dateB - dateA, NaN when a
\* date is invalid; Array.prototype.sort reads NaN as 0
CompareAdded(a, b, tz) ==
  LET dateA == ParseDate(a.added_date, tz)
      dateB == ParseDate(b.added_date, tz)
  IN  IF dateA.valid /\ dateB.valid THEN dateB.time - dateA.time ELSE 0

\* stable insertion of x into the sorted array arr
RECURSIVE InsertSorted(_, _, _)
InsertSorted(arr, x, tz) ==
  IF arr = <<>> THEN <<x>>
  ELSE IF CompareAdded(arr[Len(arr)], x, tz) <= 0 THEN Append(arr, x)
       ELSE Append(InsertSorted(SubSeq(arr, 1, Len(arr) - 1), x, tz), arr[Len(arr)])

RECURSIVE SortByAdded(_, _)
SortByAdded(arr, tz) ==
  IF arr = <<>> THEN <<>>
  ELSE InsertSorted(SortByAdded(SubSeq(arr, 1, Len(arr) - 1), tz), arr[Len(arr)], tz)

getRecentlyAddedProducts(pd, limit, nowUtc, tz) ==
  LET activeProducts == getAllActiveProducts(pd, nowUtc, tz)
      sorted == SortByAdded(activeProducts, tz)
  IN  Slice(sorted, limit)

\* the first category entry with that id as <<cat>>, or <<>> for null
getCategoryConfig(cd, categoryId) ==
  LET Test(cat) == cat.id = categoryId
      i == FindIndex(cd, Test)
  IN  IF i = 0 THEN <<>> ELSE <<cd[i]>>

\* getAllCategories counting every product of the cache
getAllCategoriesOfCache(pd, cd, nowUtc, tz) ==
  LET categoriesWithProducts == {pd[i].category : i \in 1..Len(pd)}
      Keep(cat) == cat.id \in categoriesWithProducts
  IN  Filter(cd, Keep)

getAllCategories(pd, cd, nowUtc, tz) ==
  LET activeProducts == getAllActiveProducts(pd, nowUtc, tz)
      categoriesWithProducts ==
        {activeProducts[i].category : i \in 1..Len(activeProducts)}
      Keep(cat) == cat.id \in categoriesWithProducts
  IN  Filter(cd, Keep)

\* filterProducts keeping a product that carries SOME selected tag
filterProductsAnyTag(products, selectedTags, selectedSubCats) ==
  IF Len(selectedTags) = 0 /\ Len(selectedSubCats) = 0 THEN products
  ELSE LET Keep(product) ==
             LET matchesTags ==
                   IF Len(selectedTags) > 0
                   THEN \E i \in 1..Len(selectedTags) :
                          ArrayIncludes(product.tags, selectedTags[i])
                   ELSE TRUE
                 matchesSubCat ==
                   IF Len(selectedSubCats) > 0
                   THEN ArrayIncludes(selectedSubCats, product.sub_category)
                   ELSE TRUE
             IN  matchesTags /\ matchesSubCat
       IN  Filter(products, Keep)

filterProducts(products, selectedTags, selectedSubCats) ==
  IF Len(selectedTags) = 0 /\ Len(selectedSubCats) = 0 THEN products
  ELSE LET Keep(product) ==
             LET matchesTags ==
                   IF Len(selectedTags) > 0
                   THEN \A i \in 1..Len(selectedTags) :
                          ArrayIncludes(product.tags, selectedTags[i])
                   ELSE TRUE
                 matchesSubCat ==
                   IF Len(selectedSubCats) > 0
                   THEN ArrayIncludes(selectedSubCats, product.sub_category)
                   ELSE TRUE
             IN  matchesTags /\ matchesSubCat
       IN  Filter(products, Keep)

\* searchProducts that forgets to lower-case the query
searchProductsRawQuery(pd, query, nowUtc, tz) ==
  IF query = <<>> \/ trim(query) = <<>> THEN <<>>
  ELSE LET searchTerm == trim(query)
           activeProducts == getAllActiveProducts(pd, nowUtc, tz)
           Keep(product) ==
             \/ includes(toLowerCase(product.name), searchTerm)
             \/ includes(toLowerCase(product.description), searchTerm)
             \/ includes(toLowerCase(product.category), searchTerm)
             \/ /\ product.sub_category # <<>>
                /\ includes(toLowerCase(product.sub_category), searchTerm)
             \/ \E i \in 1..Len(product.tags) :
                  includes(toLowerCase(product.tags[i]), searchTerm)
       IN  Filter(activeProducts, Keep)

searchProducts(pd, query, nowUtc, tz) ==
  IF query = <<>> \/ trim(query) = <<>> THEN <<>>
  ELSE LET searchTerm == trim(toLowerCase(query))
           activeProducts == getAllActiveProducts(pd, nowUtc, tz)
           Keep(product) ==
             \/ includes(toLowerCase(product.name), searchTerm)
             \/ includes(toLowerCase(product.description), searchTerm)
             \/ includes(toLowerCase(product.category), searchTerm)
             \/ /\ product.sub_category # <<>>
                /\ includes(toLowerCase(product.sub_category), searchTerm)
             \/ \E i \in 1..Len(product.tags) :
                  includes(toLowerCase(product.tags[i]), searchTerm)
       IN  Filter(activeProducts, Keep)

\* getRelatedProducts that does not take the current product out
getRelatedProductsWithCurrent(pd, productId, category, limit, nowUtc, tz) ==
  LET categoryProducts == getProductsByCategory(pd, category, 0, nowUtc, tz)
  IN  {Slice(shuffled, limit) : shuffled \in Shuffles(categoryProducts)}

\* the arrays getRelatedProducts can return: sort(() => 0.5 - Math.random())
\* leaves the array in an order the engine and the random draws decide
getRelatedProducts(pd, productId, category, limit, nowUtc, tz) ==
  LET categoryProducts == getProductsByCategory(pd, category, 0, nowUtc, tz)
      Keep(p) == p.id # productId
      relatedProducts == Filter(categoryProducts, Keep)
  IN  {Slice(shuffled, limit) : shuffled \in Shuffles(relatedProducts)}

\* UTF-16 code units of the characters in use
CharCode(c) ==
  CASE c = " " -> 32
    [] c = "A" -> 65
    [] c = "a" -> 97
    [] c = "b" -> 98

\* the order of Array.prototype.sort() without a comparator: strings by code
\* units, a proper prefix first
RECURSIVE StringLess(_, _)
StringLess(x, y) ==
  IF y = <<>> THEN FALSE
  ELSE IF x = <<>> THEN TRUE
  ELSE IF CharCode(Head(x)) # CharCode(Head(y))
       THEN CharCode(Head(x)) < CharCode(Head(y))
       ELSE StringLess(Tail(x), Tail(y))

\* Array.from(set).sort()
RECURSIVE SortedStrings(_)
SortedStrings(set) ==
  IF set = {} THEN <<>>
  ELSE LET least == CHOOSE x \in set : \A y \in set \ {x} : StringLess(x, y)
       IN  <<least>> \o SortedStrings(set \ {least})

getUniqueTags(products) ==
  LET tagsSet == UNION {{products[i].tags[k] : k \in 1..Len(products[i].tags)} :
                          i \in 1..Len(products)}
  IN  SortedStrings(tagsSet)

getUniqueSubCategories(products) ==
  LET subCatsSet == {products[i].sub_category : i \in 1..Len(products)} \ {<<>>}
  IN  SortedStrings(subCatsSet)

\* the two arrays a sorting query holds: the cached one, and the one filter()
\* made for it
ArraysOf(pd, filtered) == [productsData |-> pd, filtered |-> filtered]

\* getRecentlyAddedProducts sorting the cached array
recentlyAddedArraysOfCache(pd, nowUtc, tz) ==
  LET arrays == ArraysOf(pd, getAllActiveProducts(pd, nowUtc, tz))
  IN  [arrays EXCEPT !.productsData = SortByAdded(arrays.productsData, tz)]

\* the arrays after getRecentlyAddedProducts: sort() works in place, on the
\* array getAllActiveProducts returned
recentlyAddedArrays(pd, nowUtc, tz) ==
  LET arrays == ArraysOf(pd, getAllActiveProducts(pd, nowUtc, tz))
  IN  [arrays EXCEPT !.filtered = SortByAdded(arrays.filtered, tz)]

\* the arrays getRelatedProducts may leave: sort() shuffles in place the
\* array its own filter() made
relatedArrays(pd, productId, category, nowUtc, tz) ==
  LET categoryProducts == getProductsByCategory(pd, category, 0, nowUtc, tz)
      Keep(p) == p.id # productId
      arrays == ArraysOf(pd, Filter(categoryProducts, Keep))
  IN  {[arrays EXCEPT !.filtered = shuffled] : shuffled \in Shuffles(arrays.filtered)}


(***************************************************************************)
(* State                                                                   *)
(***************************************************************************)
VARIABLES
  files,           \* the JSON files the site serves: products, categories, home
  productsData,    \* CaspianData cache
  categoriesData,
  homeData,
  dataLoaded,
  pc,              \* where each caller of loadAllData stands
  ret,             \* what each caller's last loadAllData call returned
  fetchCount,      \* number of fetch requests issued so far
  writes,          \* number of times loadAllData has started to fill the cache
  calls,           \* number of loadAllData calls made so far
  failures,        \* number of loadAllData calls that returned false
  now,             \* the instant (new Date().getTime()), in minutes
  tzOffset,        \* the browser's getTimezoneOffset()
  result,          \* the last query made of a view, with what it returned
  page             \* the page that is open: its script's state and what it shows

cache == <<productsData, categoriesData, homeData>>
vars == <<files, productsData, categoriesData, homeData, dataLoaded, pc, ret,
          fetchCount, writes, calls, failures, now, tzOffset, result, page>>

Callers == 1..NumCallers

\* the three files loadAllData fetches
DataFiles == <<"womenproducts.json", "categories.json", "home.json">>

\* getTimezoneOffset() of a browser in India, in central Europe, in UTC, in
\* New York and in Los Angeles
TzOffsets == {-330, -60, 0, 300, 480}

NoArgs == [id |-> "", category |-> <<>>, limit |-> 0, query |-> <<>>,
           tags |-> <<>>, subcats |-> <<>>, input |-> <<>>]
NoResult == [op |-> "none", args |-> NoArgs, products |-> <<>>,
             categories |-> <<>>, strings |-> <<>>, at |-> 0]

Returned(op, args, products, categories) ==
  [op |-> op, args |-> args, products |-> products,
   categories |-> categories, strings |-> <<>>, at |-> now]

\* the value of a query that returns an array of strings
ReturnedStrings(op, strings) ==
  [op |-> op, args |-> NoArgs, products |-> <<>>, categories |-> <<>>,
   strings |-> strings, at |-> now]

(***************************************************************************)
(* loadAllData: one action per stretch of code between two awaits          *)
(***************************************************************************)
loadVarsUnchanged == UNCHANGED <<files, now, tzOffset, result, page>>

\* LoadCall without the memo test: every call fetches
LoadCallNoMemo(c) ==
  /\ pc[c] = "idle"
  /\ calls < MaxCalls
  /\ calls' = calls + 1
  /\ ret' = [ret EXCEPT ![c] = "pending"]
  /\ pc' = [pc EXCEPT ![c] = "fetching"]
  /\ fetchCount' = fetchCount + Len(DataFiles)
  /\ UNCHANGED <<productsData, categoriesData, homeData, dataLoaded, writes,
                 failures>>
  /\ loadVarsUnchanged

\* lines 343-352: the memo test, then the three fetches are issued
LoadCall(c) ==
  /\ pc[c] = "idle"
  /\ calls < MaxCalls
  /\ calls' = calls + 1
  /\ IF dataLoaded
     THEN /\ ret' = [ret EXCEPT ![c] = "true"]
          /\ UNCHANGED <<pc, fetchCount>>
     ELSE /\ ret' = [ret EXCEPT ![c] = "pending"]
          /\ pc' = [pc EXCEPT ![c] = "fetching"]
          /\ fetchCount' = fetchCount + Len(DataFiles)
  /\ UNCHANGED <<productsData, categoriesData, homeData, dataLoaded, writes,
                 failures>>
  /\ loadVarsUnchanged

\* lines 348-356: Promise.all settles; a rejected fetch or a response that
\* is not ok ends the call in the catch block
LoadFetched(c) ==
  /\ pc[c] = "fetching"
  /\ \E outcome \in {"rejected", "notOk", "ok"} :
       IF outcome = "ok"
       THEN /\ pc' = [pc EXCEPT ![c] = "productsJson"]
            /\ UNCHANGED ret
       ELSE /\ pc' = [pc EXCEPT ![c] = "idle"]
            /\ ret' = [ret EXCEPT ![c] = "false"]
  /\ failures' = IF pc'[c] = "idle" THEN failures + 1 ELSE failures
  /\ UNCHANGED <<productsData, categoriesData, homeData, dataLoaded,
                 fetchCount, writes, calls>>
  /\ loadVarsUnchanged

\* line 358: productsData = await productsRes.json()
LoadProducts(c) ==
  /\ pc[c] = "productsJson"
  /\ \E parsed \in BOOLEAN :
       IF parsed
       THEN /\ productsData' = files.products
            /\ writes' = writes + 1
            /\ pc' = [pc EXCEPT ![c] = "categoriesJson"]
            /\ UNCHANGED ret
       ELSE /\ pc' = [pc EXCEPT ![c] = "idle"]
            /\ ret' = [ret EXCEPT ![c] = "false"]
            /\ UNCHANGED <<productsData, writes>>
  /\ failures' = IF pc'[c] = "idle" THEN failures + 1 ELSE failures
  /\ UNCHANGED <<categoriesData, homeData, dataLoaded, fetchCount, calls>>
  /\ loadVarsUnchanged

\* line 359: categoriesData = await categoriesRes.json()
LoadCategories(c) ==
  /\ pc[c] = "categoriesJson"
  /\ \E parsed \in BOOLEAN :
       IF parsed
       THEN /\ categoriesData' = files.categories
            /\ pc' = [pc EXCEPT ![c] = "homeJson"]
            /\ UNCHANGED ret
       ELSE /\ pc' = [pc EXCEPT ![c] = "idle"]
            /\ ret' = [ret EXCEPT ![c] = "false"]
            /\ UNCHANGED categoriesData
  /\ failures' = IF pc'[c] = "idle" THEN failures + 1 ELSE failures
  /\ UNCHANGED <<productsData, homeData, dataLoaded, fetchCount, writes, calls>>
  /\ loadVarsUnchanged

\* lines 360-363: homeData = await homeRes.json(); dataLoaded = true
LoadHome(c) ==
  /\ pc[c] = "homeJson"
  /\ \E parsed \in BOOLEAN :
       IF parsed
       THEN /\ homeData' = files.home
            /\ dataLoaded' = TRUE
            /\ ret' = [ret EXCEPT ![c] = "true"]
       ELSE /\ ret' = [ret EXCEPT ![c] = "false"]
            /\ UNCHANGED <<homeData, dataLoaded>>
  /\ failures' = IF ret'[c] = "false" THEN failures + 1 ELSE failures
  /\ pc' = [pc EXCEPT ![c] = "idle"]
  /\ UNCHANGED <<productsData, categoriesData, fetchCount, writes, calls>>
  /\ loadVarsUnchanged

(***************************************************************************)
(* The pages: home, picks, deals, category and product                     *)
(***************************************************************************)
PageKinds == {"home", "picks", "deals", "category", "product"}

\* the pages with a filter sidebar over a products grid
ListingPages == {"picks", "deals", "category"}

\* function declarations at the top level of a page's script: they are on
\* window as soon as the script is evaluated
TopLevelFunctions(kind) ==
  {"toggleMobileMenu", "toggleDropdown"}
    \cup (IF kind \in ListingPages THEN {"toggleFilters"} ELSE {})

\* the functions a page's script assigns to window once it is initialised;
\* the banner of the model's home.json has several slides
ExposedHandlers(kind) ==
  CASE kind = "home" ->
         IF ~homeData.isNull /\ homeData.enabled = 1 THEN {"goToSlide"} ELSE {}
    [] kind = "picks" ->
         {"handleCategoryChange", "handleSubCategoryChange", "handleTagChange",
          "removeFilter", "clearSearch", "clearAllFilters", "applySorting"}
    [] kind = "deals" ->
         {"handleCategoryChange", "handleTagChange", "applySorting",
          "removeFilter", "clearAllFilters"}
    [] kind = "category" ->
         {"handleSubCategoryChange", "handleTagChange", "applySorting",
          "removeFilter", "clearAllFilters"}
    [] kind = "product" -> {"changeMainImage", "shareProduct"}

\* the handlers that change a filter criterion or the sort order
FilterSortHandlers ==
  {"handleCategoryChange", "handleSubCategoryChange", "handleTagChange",
   "removeFilter", "clearSearch", "clearAllFilters", "applySorting"}

LoadFailureMessage(kind) ==
  IF kind = "product" THEN "Failed to load data"
  ELSE "Failed to load data. Please refresh the page."

\* no page is open
NoPage ==
  [kind |-> "none", pc |-> "done", category |-> <<>>, id |-> "",
   search |-> <<>>, errors |-> <<>>, sidebarHidden |-> FALSE,
   exposed |-> {}, listeners |-> {}, base |-> <<>>,
   selectedCategories |-> <<>>, selectedSubCategories |-> <<>>,
   selectedTags |-> <<>>, searchQuery |-> <<>>, currentSort |-> "newest",
   grid |-> <<>>, more |-> <<>>]

\* a page just navigated to, its script evaluated but not yet run: category,
\* id and search are the parameters of its URL, "" and <<>> when missing
OpenPage(kind, category, id, search) ==
  [NoPage EXCEPT !.kind = kind, !.pc = "start", !.category = category,
                 !.id = id, !.search = search,
                 !.exposed = TopLevelFunctions(kind)]

\* showError: the message replaces the main container; the category page
\* also hides its filter sidebar
showError(pg, message) ==
  [pg EXCEPT !.errors = Append(pg.errors, message),
             !.grid = <<>>,
             !.sidebarHidden = (pg.kind = "category") \/ pg.sidebarHidden,
             !.pc = "done"]

\* applyFilters of the picks, deals and category pages, up to the array it
\* hands to applySorting: the picks page replaces its products by a new
\* search when it has a query; the deals page has no sub-category filter, the
\* category page no category filter
applyFilters(pg, pd, nowUtc, tz) ==
  LET InCategories(p) == ArrayIncludes(pg.selectedCategories, p.category)
      InSubCategories(p) == ArrayIncludes(pg.selectedSubCategories, p.sub_category)
      HasTags(p) == \A i \in 1..Len(pg.selectedTags) :
                      ArrayIncludes(p.tags, pg.selectedTags[i])
      searched == IF pg.kind = "picks" /\ pg.searchQuery # <<>>
                  THEN searchProducts(pd, pg.searchQuery, nowUtc, tz)
                  ELSE pg.base
      ofCategories == IF pg.kind # "category" /\ Len(pg.selectedCategories) > 0
                      THEN Filter(searched, InCategories)
                      ELSE searched
      ofSubCategories == IF pg.kind # "deals" /\ Len(pg.selectedSubCategories) > 0
                         THEN Filter(ofCategories, InSubCategories)
                         ELSE ofCategories
  IN  IF Len(pg.selectedTags) > 0 THEN Filter(ofSubCategories, HasTags)
      ELSE ofSubCategories

\* applySorting and renderProducts: the pages it may leave. "newest" sorts by
\* added_date; the price and rating comparators read fields the model does
\* not carry, so their outcome is any rearrangement
applySorting(pg, filtered, sortValue, tz) ==
  LET outcomes == IF sortValue = "newest" THEN {SortByAdded(filtered, tz)}
                  ELSE Shuffles(filtered)
  IN  {[pg EXCEPT !.currentSort = sortValue, !.grid = sorted] : sorted \in outcomes}

\* the tail of every filter handler: applyFilters()
Refiltered(pg) ==
  applySorting(pg, applyFilters(pg, productsData, now, tzOffset),
               pg.currentSort, tzOffset)

\* the initialisation the three listing pages share, from the base products
\* on: filters, first applyFilters, search listener, window assignments
initializeListing(pg, base) ==
  Refiltered([pg EXCEPT
                !.base = base,
                !.searchQuery = IF pg.kind = "picks" THEN pg.search ELSE <<>>,
                !.listeners = @ \cup {"searchInput"},
                !.exposed = @ \cup ExposedHandlers(pg.kind),
                !.pc = "done"])

\* loadCategorySections of the home page: up to three products of each of
\* the first four categories
RECURSIVE categorySections(_)
categorySections(categories) ==
  IF categories = <<>> THEN <<>>
  ELSE getProductsByCategory(productsData, Head(categories).id, 3, now, tzOffset)
         \o categorySections(Tail(categories))

\* the category page asking for its products before it looks up its category
initializeCategoryProductsFirst(pg) ==
  LET categoryConfig == getCategoryConfig(categoriesData, pg.category)
      allCategoryProducts ==
        getProductsByCategory(productsData, pg.category, 0, now, tzOffset)
  IN  IF Len(allCategoryProducts) = 0
      THEN {showError(pg, "No products available in this category")}
      ELSE IF categoryConfig = <<>>
      THEN {showError(pg, "Category not found")}
      ELSE initializeListing(pg, allCategoryProducts)

\* the category page past its load guard: the category is looked up, then
\* its products
initializeCategory(pg) ==
  LET categoryConfig == getCategoryConfig(categoriesData, pg.category)
      allCategoryProducts ==
        getProductsByCategory(productsData, pg.category, 0, now, tzOffset)
  IN  IF categoryConfig = <<>>
      THEN {showError(pg, "Category not found")}
      ELSE IF Len(allCategoryProducts) = 0
      THEN {showError(pg, "No products available in this category")}
      ELSE initializeListing(pg, allCategoryProducts)

\* what the script of a page may do once loadAllData has returned true
initializePage(pg) ==
  CASE pg.kind = "home" ->
         {[pg EXCEPT
             !.grid = getRecentlyAddedProducts(productsData, 6, now, tzOffset),
             !.more = categorySections(
                        Slice(getAllCategories(productsData, categoriesData,
                                               now, tzOffset), 4)),
             !.listeners = @ \cup {"searchInput"},
             !.exposed = @ \cup ExposedHandlers(pg.kind),
             !.pc = "done"]}
    [] pg.kind = "picks" ->
         initializeListing(pg, getAllActiveProducts(productsData, now, tzOffset))
    [] pg.kind = "deals" ->
         initializeListing(pg, getFeaturedProducts(productsData, now, tzOffset))
    [] pg.kind = "category" -> initializeCategory(pg)
    [] pg.kind = "product" ->
         LET product == getProductById(productsData, pg.id, now, tzOffset)
         IN  IF product = <<>>
             THEN {showError(pg, "Product not found or not available")}
             ELSE {[pg EXCEPT
                      !.grid = product,
                      !.more = related,
                      !.listeners = @ \cup {"searchInput"},
                      !.exposed = @ \cup ExposedHandlers(pg.kind),
                      !.pc = "done"] :
                     related \in getRelatedProducts(productsData, product[1].id,
                                                    product[1].category, 4,
                                                    now, tzOffset)}

pageVarsUnchanged ==
  UNCHANGED <<files, productsData, categoriesData, homeData, dataLoaded, pc,
              ret, fetchCount, writes, calls, failures, now, tzOffset, result>>

\* the script of the page runs up to its await: the guard on the URL
\* parameter of the category and the product page; then the rest of the
\* script adds the click listener of the document
PageStart ==
  /\ page.pc = "start"
  /\ LET clicked == [page EXCEPT !.listeners = @ \cup {"document.click"}]
     IN  page' = IF page.kind = "category" /\ page.category = <<>>
                 THEN showError(clicked, "Category not specified")
                 ELSE IF page.kind = "product" /\ page.id = ""
                 THEN showError(clicked, "Product not found")
                 ELSE [clicked EXCEPT !.pc = "loading"]
  /\ pageVarsUnchanged

\* await CaspianData.loadAllData(), the call
PageLoad ==
  /\ page.pc = "loading"
  /\ ret[1] = "none"
  /\ LoadCall(1)

\* the load guard without its return: the error is shown and the script
\* goes on
PageLoadFailedGoesOn ==
  /\ page.pc = "loading"
  /\ ret[1] = "false"
  /\ \E initialized \in initializePage(page) :
       page' = [initialized EXCEPT
                  !.errors = <<LoadFailureMessage(page.kind)>> \o @,
                  !.pc = "done"]
  /\ pageVarsUnchanged

\* if (!loaded) { showError(...); return; }
PageLoadFailed ==
  /\ page.pc = "loading"
  /\ ret[1] = "false"
  /\ page' = showError(page, LoadFailureMessage(page.kind))
  /\ pageVarsUnchanged

\* the script from its load guard to its end
PageInitialize ==
  /\ page.pc = "loading"
  /\ ret[1] = "true"
  /\ page' \in initializePage(page)
  /\ pageVarsUnchanged

\* arr.filter((e) => e !== x)
Without(arr, x) == SelectSeq(arr, LAMBDA e : e # x)

\* if (!arr.includes(x)) arr.push(x)
PushOnce(arr, x) == IF ArrayIncludes(arr, x) THEN arr ELSE Append(arr, x)

\* the handlers up to their call of applyFilters; checked is the state of
\* the checkbox that changed. The picks page drops every sub-category when
\* a category is taken off
handleCategoryChange(pg, categoryId, checked) ==
  IF checked
  THEN [pg EXCEPT !.selectedCategories = PushOnce(@, categoryId)]
  ELSE [pg EXCEPT !.selectedCategories = Without(@, categoryId),
                  !.selectedSubCategories = IF pg.kind = "picks" THEN <<>> ELSE @]

handleSubCategoryChange(pg, subCategory, checked) ==
  [pg EXCEPT !.selectedSubCategories =
               IF checked THEN PushOnce(@, subCategory) ELSE Without(@, subCategory)]

handleTagChange(pg, tag, checked) ==
  [pg EXCEPT !.selectedTags = IF checked THEN PushOnce(@, tag) ELSE Without(@, tag)]

removeFilter(pg, type, value) ==
  CASE type = "category" /\ pg.kind # "category" ->
         [pg EXCEPT !.selectedCategories = Without(@, value),
                    !.selectedSubCategories = IF pg.kind = "picks" THEN <<>> ELSE @]
    [] type = "subCategory" /\ pg.kind # "deals" ->
         [pg EXCEPT !.selectedSubCategories = Without(@, value)]
    [] type = "tag" -> [pg EXCEPT !.selectedTags = Without(@, value)]
    [] OTHER -> pg

clearSearch(pg) == [pg EXCEPT !.searchQuery = <<>>]

clearAllFilters(pg) ==
  [pg EXCEPT !.selectedCategories = <<>>, !.selectedSubCategories = <<>>,
             !.selectedTags = <<>>, !.searchQuery = <<>>]

\* a handler can be called once the script has put it on window
HandlerReady(name) == page.pc = "done" /\ name \in page.exposed

HandleCategoryChange ==
  /\ HandlerReady("handleCategoryChange")
  /\ \E categoryId \in {CatA, CatB}, checked \in BOOLEAN :
       page' \in Refiltered(handleCategoryChange(page, categoryId, checked))
  /\ pageVarsUnchanged

HandleSubCategoryChange ==
  /\ HandlerReady("handleSubCategoryChange")
  /\ \E subCategory \in {SubX, SubY}, checked \in BOOLEAN :
       page' \in Refiltered(handleSubCategoryChange(page, subCategory, checked))
  /\ pageVarsUnchanged

HandleTagChange ==
  /\ HandlerReady("handleTagChange")
  /\ \E tag \in {TagP, TagQ}, checked \in BOOLEAN :
       page' \in Refiltered(handleTagChange(page, tag, checked))
  /\ pageVarsUnchanged

\* the button of an active filter
RemoveFilter ==
  /\ HandlerReady("removeFilter")
  /\ \E type \in {"category", "subCategory", "tag"} :
       LET active == CASE type = "category" -> page.selectedCategories
                       [] type = "subCategory" -> page.selectedSubCategories
                       [] type = "tag" -> page.selectedTags
       IN  \E i \in 1..Len(active) :
             page' \in Refiltered(removeFilter(page, type, active[i]))
  /\ pageVarsUnchanged

ClearSearch ==
  /\ HandlerReady("clearSearch")
  /\ page' \in Refiltered(clearSearch(page))
  /\ pageVarsUnchanged

ClearAllFilters ==
  /\ HandlerReady("clearAllFilters")
  /\ page' \in Refiltered(clearAllFilters(page))
  /\ pageVarsUnchanged

\* the sort select changes: the grid is sorted again
ApplySorting ==
  /\ HandlerReady("applySorting")
  /\ \E sortValue \in {"newest", "rating"} :
       page' \in applySorting(page, page.grid, sortValue, tzOffset)
  /\ pageVarsUnchanged

\* the input listener of the picks page, once its timeout has run
SearchInput ==
  /\ page.kind = "picks"
  /\ page.pc = "done"
  /\ "searchInput" \in page.listeners
  /\ \E value \in SeqsUpTo(Alphabet, MaxQueryLen) :
       page' \in Refiltered([page EXCEPT !.searchQuery = trim(value)])
  /\ pageVarsUnchanged

(***************************************************************************)
(* The clock, and the queries of the views                                 *)
(***************************************************************************)
queryVarsUnchanged ==
  UNCHANGED <<files, productsData, categoriesData, homeData, dataLoaded, pc,
              ret, fetchCount, writes, calls, failures, now, tzOffset, page>>

\* the queries that sort: what they leave of productsData is stated by each
sortVarsUnchanged ==
  UNCHANGED <<files, categoriesData, homeData, dataLoaded, pc, ret, fetchCount,
              writes, calls, failures, now, tzOffset, page>>

Tick ==
  /\ now < MaxTicks * TickStep
  /\ now' = now + TickStep
  /\ UNCHANGED <<files, productsData, categoriesData, homeData, dataLoaded,
                 pc, ret, fetchCount, writes, calls, failures, tzOffset, result,
                 page>>

Limits == {0, 1}
Queries == SeqsUpTo(Alphabet, MaxQueryLen)
TagChoices == {<<>>, <<TagP>>, <<TagQ>>, <<TagP, TagQ>>}
SubCatChoices == {<<>>, <<SubX>>, <<SubX, SubY>>}

GetAllActiveProducts ==
  /\ result' = Returned("getAllActiveProducts", NoArgs,
                        getAllActiveProducts(productsData, now, tzOffset), <<>>)
  /\ queryVarsUnchanged

GetProductById ==
  /\ \E id \in ProductIds :
       result' = Returned("getProductById", [NoArgs EXCEPT !.id = id],
                          getProductById(productsData, id, now, tzOffset), <<>>)
  /\ queryVarsUnchanged

GetProductsByCategory ==
  /\ \E category \in {CatA, CatB}, limit \in Limits :
       result' = Returned("getProductsByCategory",
                          [NoArgs EXCEPT !.category = category, !.limit = limit],
                          getProductsByCategory(productsData, category, limit,
                                                now, tzOffset), <<>>)
  /\ queryVarsUnchanged

GetRecentlyAddedProducts ==
  /\ \E limit \in {1, 2, 6} :
       result' = Returned("getRecentlyAddedProducts", [NoArgs EXCEPT !.limit = limit],
                          getRecentlyAddedProducts(productsData, limit, now, tzOffset),
                          <<>>)
  /\ productsData' = recentlyAddedArrays(productsData, now, tzOffset).productsData
  /\ sortVarsUnchanged

GetFeaturedProducts ==
  /\ result' = Returned("getFeaturedProducts", NoArgs,
                        getFeaturedProducts(productsData, now, tzOffset), <<>>)
  /\ queryVarsUnchanged

GetCategoryConfig ==
  /\ \E categoryId \in CategoryIds :
       result' = Returned("getCategoryConfig", [NoArgs EXCEPT !.category = categoryId],
                          <<>>, getCategoryConfig(categoriesData, categoryId))
  /\ queryVarsUnchanged

GetAllCategories ==
  /\ result' = Returned("getAllCategories", NoArgs, <<>>,
                        getAllCategories(productsData, categoriesData, now, tzOffset))
  /\ queryVarsUnchanged

FilterProducts ==
  /\ \E products \in {productsData, getAllActiveProducts(productsData, now, tzOffset)},
        selectedTags \in TagChoices, selectedSubCats \in SubCatChoices :
       result' = Returned("filterProducts",
                          [NoArgs EXCEPT !.tags = selectedTags,
                                         !.subcats = selectedSubCats,
                                         !.input = products],
                          filterProducts(products, selectedTags, selectedSubCats),
                          <<>>)
  /\ queryVarsUnchanged

SearchProducts ==
  /\ \E query \in Queries :
       result' = Returned("searchProducts", [NoArgs EXCEPT !.query = query],
                          searchProducts(productsData, query, now, tzOffset), <<>>)
  /\ queryVarsUnchanged

GetRelatedProducts ==
  /\ \E productId \in {"p1", "p2"}, category \in {CatA, CatB}, limit \in {1, 4} :
       /\ \E related \in getRelatedProducts(productsData, productId, category,
                                            limit, now, tzOffset) :
            result' = Returned("getRelatedProducts",
                               [NoArgs EXCEPT !.id = productId,
                                              !.category = category,
                                              !.limit = limit],
                               related, <<>>)
       /\ \E arrays \in relatedArrays(productsData, productId, category,
                                        now, tzOffset) :
            productsData' = arrays.productsData
  /\ sortVarsUnchanged

\* a page asks for the tags of a list it got from the module
GetUniqueTags ==
  /\ \E products \in {getAllActiveProducts(productsData, now, tzOffset),
                       getFeaturedProducts(productsData, now, tzOffset)} :
       result' = ReturnedStrings("getUniqueTags", getUniqueTags(products))
  /\ queryVarsUnchanged

GetUniqueSubCategories ==
  /\ \E products \in {getAllActiveProducts(productsData, now, tzOffset),
                       getFeaturedProducts(productsData, now, tzOffset)} :
       result' = ReturnedStrings("getUniqueSubCategories",
                                 getUniqueSubCategories(products))
  /\ queryVarsUnchanged

(***************************************************************************)
(* The files served                                                        *)
(***************************************************************************)
\* longest categories file
MaxCategories == 2

File(products, categories) ==
  [products |-> products, categories |-> categories, home |-> HomeFile]

TwoCategories == <<Category(CatA), Category(CatB)>>

\* products that differ in id and visibility; p1 is featured, and the
\* scheduled products are those of category b
VisibilityPool ==
  {Product(id, v[1], v[2], IF v[2].kind = "datetime" THEN CatB ELSE CatA,
           IF id = "p1" THEN 1 ELSE 0) :
     id \in {"p1", "p2"},
     v \in {<<1, NoPublishAt>>, <<1, PublishAt(PublishWall)>>,
            <<1, BadPublishAt>>, <<0, NoPublishAt>>}}

VisibilityFiles ==
  {File(products, TwoCategories) : products \in SeqsUpTo(VisibilityPool, MaxProducts)}

\* products of two categories, visible, hidden or scheduled
CategoryPool ==
  {Product("p1", v[1], v[2], category, 0) :
     v \in {<<1, NoPublishAt>>, <<1, PublishAt(PublishWall)>>, <<0, NoPublishAt>>},
     category \in {CatA, CatB}}

CategoryFiles ==
  {File(products, categories) :
     products \in SeqsUpTo(CategoryPool, MaxProducts),
     categories \in SeqsUpTo({Category(id) : id \in CategoryIds}, MaxCategories)}

\* products that differ in tags and sub-category
FacetPool ==
  {[Product("p1", 1, NoPublishAt, CatA, 0) EXCEPT !.tags = tags, !.sub_category = sub] :
     tags \in {<<>>, <<TagP>>, <<TagQ>>, <<TagP, TagQ>>},
     sub \in {<<>>, SubX, SubY}}

FacetFiles ==
  {File(products, TwoCategories) : products \in SeqsUpTo(FacetPool, MaxProducts)}

\* products whose text fields all read "bA", but for one field that reads
\* "Aab" (or for none), and an inactive product named "Aab"
Plain == <<"b", "A">>
Needle == <<"A", "a", "b">>
PlainProduct ==
  [Product("p1", 1, NoPublishAt, Plain, 0) EXCEPT !.sub_category = Plain,
                                                   !.tags = <<Plain>>]
TextPool ==
  {PlainProduct,
   [PlainProduct EXCEPT !.name = Needle],
   [PlainProduct EXCEPT !.description = Needle],
   [PlainProduct EXCEPT !.category = Needle],
   [PlainProduct EXCEPT !.sub_category = Needle],
   [PlainProduct EXCEPT !.tags = <<Plain, Needle>>],
   [PlainProduct EXCEPT !.sub_category = <<>>, !.tags = <<>>],
   [PlainProduct EXCEPT !.name = Needle, !.active = 0]}

TextFiles ==
  {File(products, TwoCategories) : products \in SeqsUpTo(TextPool, MaxProducts)}

\* scheduled products, due one tick and two ticks after the clock starts
SchedulePool ==
  {Product("p1", 1, publish_at, CatA, 0) :
     publish_at \in {NoPublishAt, PublishAt(PublishWall),
                     PublishAt(PublishWall + TickStep)}}

ScheduleFiles ==
  {File(products, TwoCategories) : products \in SeqsUpTo(SchedulePool, MaxProducts)}

\* products added on different days, two of them on the same day, and a
\* hidden product that is the newest of all
RecentPool ==
  {[Product("p1", 1, NoPublishAt, CatA, 0) EXCEPT !.added_date = PublishAt(day)] :
     day \in {0, 1, 2}}
  \cup {[Product("p2", 1, NoPublishAt, CatA, 0) EXCEPT !.added_date = PublishAt(1)],
        [Product("p3", 0, NoPublishAt, CatA, 0) EXCEPT !.added_date = PublishAt(3)]}

RecentFiles ==
  {File(products, TwoCategories) : products \in SeqsUpTo(RecentPool, MaxListed)}

\* products of three ids in two categories, and a hidden one
RelatedPool ==
  {Product(id, 1, NoPublishAt, category, 0) :
     id \in ProductIds, category \in {CatA, CatB}}
  \cup {Product("p2", 0, NoPublishAt, CatA, 0)}

RelatedFiles ==
  {File(products, TwoCategories) : products \in SeqsUpTo(RelatedPool, MaxListed)}

\* a catalog whose order is neither the order of added_date nor a sorted one
FrameProducts ==
  <<[Product("p1", 1, NoPublishAt, CatA, 1)
       EXCEPT !.tags = <<TagQ, TagP>>, !.sub_category = SubY],
    [Product("p2", 1, NoPublishAt, CatA, 0)
       EXCEPT !.added_date = PublishAt(2), !.tags = <<TagP>>, !.sub_category = SubX],
    [Product("p3", 1, NoPublishAt, CatA, 1)
       EXCEPT !.added_date = PublishAt(1), !.name = Needle]>>

FrameFiles ==
  {File(products, TwoCategories) :
     products \in {FrameProducts, SubSeq(FrameProducts, 1, 2)}}

\* a catalog with two products to show in one category and none in the
\* other, whose single product is inactive
PageProducts ==
  <<Product("p1", 1, NoPublishAt, CatA, 1),
    [Product("p2", 1, NoPublishAt, CatA, 0) EXCEPT !.added_date = PublishAt(1)],
    Product("p3", 0, NoPublishAt, CatB, 1)>>

PageFiles ==
  {File(products, TwoCategories) :
     products \in {PageProducts, SubSeq(PageProducts, 1, 2)}}

\* the pages as a visitor may open them: the category page with no category,
\* a listed one, one without products, an unknown one; the product page with
\* no id, a shown product, a hidden one, an unknown one
OpenedPages ==
  {OpenPage("home", <<>>, "", <<>>), OpenPage("deals", <<>>, "", <<>>)}
    \cup {OpenPage("picks", <<>>, "", search) : search \in {<<>>, <<"A">>}}
    \cup {OpenPage("category", category, "", <<>>) :
            category \in {<<>>, CatA, CatB, CatC}}
    \cup {OpenPage("product", <<>>, id, <<>>) : id \in {"", "p1", "p3", "p9"}}

\* a catalog for the listing pages: two categories, two sub-categories, two
\* tags, and a product that is due one tick after the start
ListingProducts ==
  <<[Product("p1", 1, NoPublishAt, CatA, 1)
       EXCEPT !.sub_category = SubX, !.tags = <<TagP>>],
    [Product("p2", 1, PublishAt(PublishWall), CatA, 1)
       EXCEPT !.sub_category = SubY, !.tags = <<TagP, TagQ>>,
              !.added_date = PublishAt(1)],
    Product("p3", 1, NoPublishAt, CatB, 0)>>

ListingFiles ==
  {File(products, TwoCategories) :
     products \in {ListingProducts, SubSeq(ListingProducts, 1, 2)}}

\* the listing pages as a visitor may open them
OpenedListings ==
  {OpenPage("deals", <<>>, "", <<>>), OpenPage("category", CatA, "", <<>>)}
    \cup {OpenPage("picks", <<>>, "", search) : search \in {<<>>, <<"A">>}}

\* the files of the loading specification
LoadFiles ==
  {File(products, TwoCategories) :
     products \in {<<Product("p1", 1, NoPublishAt, CatA, 1)>>,
                   <<Product("p1", 0, NoPublishAt, CatA, 0),
                     Product("p2", 1, PublishAt(PublishWall), CatB, 1)>>}}

(***************************************************************************)
(* Specifications                                                          *)
(***************************************************************************)
\* the module as constructed (lines 299-303), before any call
Init ==
  /\ files \in LoadFiles
  /\ productsData = <<>>
  /\ categoriesData = <<>>
  /\ homeData = NullHome
  /\ dataLoaded = FALSE
  /\ pc = [c \in Callers |-> "idle"]
  /\ ret = [c \in Callers |-> "none"]
  /\ fetchCount = 0
  /\ writes = 0
  /\ calls = 0
  /\ failures = 0
  /\ now = 0
  /\ tzOffset = 0
  /\ result = NoResult
  /\ page = NoPage

Next ==
  \E c \in Callers :
    \/ LoadCall(c)
    \/ LoadFetched(c)
    \/ LoadProducts(c)
    \/ LoadCategories(c)
    \/ LoadHome(c)

\* loadAllData under any interleaving of its callers
Spec == Init /\ [][Next]_vars

\* the state a page is in once its loadAllData call has returned true
Loaded(fileSet, offsets) ==
  /\ files \in fileSet
  /\ productsData = files.products
  /\ categoriesData = files.categories
  /\ homeData = files.home
  /\ dataLoaded = TRUE
  /\ pc = [c \in Callers |-> "idle"]
  /\ ret = [c \in Callers |-> IF c = 1 THEN "true" ELSE "none"]
  /\ fetchCount = Len(DataFiles)
  /\ writes = 1
  /\ calls = 1
  /\ failures = 0
  /\ now = 0
  /\ tzOffset \in offsets
  /\ result = NoResult
  /\ page = NoPage

\* seen from a browser in New York
InitViews == Loaded(VisibilityFiles, {300})

NextViews ==
  \/ Tick
  \/ GetAllActiveProducts
  \/ GetProductById
  \/ GetProductsByCategory
  \/ GetRecentlyAddedProducts
  \/ GetFeaturedProducts
  \/ SearchProducts
  \/ GetRelatedProducts

\* the product views, over files that differ in visibility
SpecViews == InitViews /\ [][NextViews]_vars

InitCategories == Loaded(CategoryFiles, {0})

NextCategories ==
  \/ Tick
  \/ GetAllCategories
  \/ GetCategoryConfig

\* the category views
SpecCategories == InitCategories /\ [][NextCategories]_vars

InitSearch == Loaded(TextFiles, {0})

NextSearch == SearchProducts

\* text search
SpecSearch == InitSearch /\ [][NextSearch]_vars

InitSchedule == Loaded(ScheduleFiles, TzOffsets)

NextSchedule ==
  \/ Tick
  \/ GetAllActiveProducts

\* scheduled publication, seen from browsers in different timezones
SpecSchedule == InitSchedule /\ [][NextSchedule]_vars

InitRecent == Loaded(RecentFiles, {300})

NextRecent == GetRecentlyAddedProducts

\* the recently added products
SpecRecent == InitRecent /\ [][NextRecent]_vars

InitRelated == Loaded(RelatedFiles, {0})

NextRelated == GetRelatedProducts

\* the related products of a product page
SpecRelated == InitRelated /\ [][NextRelated]_vars

InitFilter == Loaded(FacetFiles, {0})

NextFilter == FilterProducts

\* facet filtering
SpecFilter == InitFilter /\ [][NextFilter]_vars

\* the module from its construction on: its callers load, and the views query
\* whatever the cache holds at that moment
InitFrame ==
  /\ files \in FrameFiles
  /\ productsData = <<>>
  /\ categoriesData = <<>>
  /\ homeData = NullHome
  /\ dataLoaded = FALSE
  /\ pc = [c \in Callers |-> "idle"]
  /\ ret = [c \in Callers |-> "none"]
  /\ fetchCount = 0
  /\ writes = 0
  /\ calls = 0
  /\ failures = 0
  /\ now = 0
  /\ tzOffset = 0
  /\ result = NoResult
  /\ page = NoPage

NextFrame ==
  \/ LoadCall(1)
  \/ LoadFetched(1)
  \/ LoadProducts(1)
  \/ LoadCategories(1)
  \/ LoadHome(1)
  \/ GetAllActiveProducts
  \/ GetProductById
  \/ GetProductsByCategory
  \/ GetRecentlyAddedProducts
  \/ GetFeaturedProducts
  \/ GetAllCategories
  \/ GetUniqueTags
  \/ GetUniqueSubCategories
  \/ FilterProducts
  \/ SearchProducts
  \/ GetRelatedProducts

SpecFrame == InitFrame /\ [][NextFrame]_vars

\* a page from the navigation to it up to the end of its script
InitPages ==
  /\ files \in PageFiles
  /\ productsData = <<>>
  /\ categoriesData = <<>>
  /\ homeData = NullHome
  /\ dataLoaded = FALSE
  /\ pc = [c \in Callers |-> "idle"]
  /\ ret = [c \in Callers |-> "none"]
  /\ fetchCount = 0
  /\ writes = 0
  /\ calls = 0
  /\ failures = 0
  /\ now = 0
  /\ tzOffset = 0
  /\ result = NoResult
  /\ page \in OpenedPages

NextPages ==
  \/ PageStart
  \/ PageLoad
  \/ LoadFetched(1)
  \/ LoadProducts(1)
  \/ LoadCategories(1)
  \/ LoadHome(1)
  \/ PageLoadFailed
  \/ PageInitialize

SpecPages == InitPages /\ [][NextPages]_vars

\* a listing page from the navigation to it, through its load, to the
\* visitor's filter actions, while the clock runs
InitListing ==
  /\ files \in ListingFiles
  /\ productsData = <<>>
  /\ categoriesData = <<>>
  /\ homeData = NullHome
  /\ dataLoaded = FALSE
  /\ pc = [c \in Callers |-> "idle"]
  /\ ret = [c \in Callers |-> "none"]
  /\ fetchCount = 0
  /\ writes = 0
  /\ calls = 0
  /\ failures = 0
  /\ now = 0
  /\ tzOffset = 0
  /\ result = NoResult
  /\ page \in OpenedListings

NextListing ==
  \/ PageStart
  \/ PageLoad
  \/ LoadFetched(1)
  \/ LoadProducts(1)
  \/ LoadCategories(1)
  \/ LoadHome(1)
  \/ PageLoadFailed
  \/ PageInitialize
  \/ Tick
  \/ HandleCategoryChange
  \/ HandleSubCategoryChange
  \/ HandleTagChange
  \/ RemoveFilter
  \/ ClearSearch
  \/ ClearAllFilters
  \/ ApplySorting
  \/ SearchInput

SpecListing == InitListing /\ [][NextListing]_vars

(***************************************************************************)
(* What the properties are stated with                                     *)
(***************************************************************************)
Range(arr) == {arr[i] : i \in 1..Len(arr)}

\* the IST (UTC+5:30) wall-clock reading at the instant t
IstWallClock(t) == t + IstOffset

\* product p is to be shown at the instant t: active, and not scheduled or
\* scheduled for an IST wall-clock time that has come
Published(p, t) ==
  \/ p.publish_at.kind = "absent"
  \/ p.publish_at.kind = "datetime" /\ IstWallClock(t) >= p.publish_at.wall

Visible(p, t) == p.active = 1 /\ Published(p, t)

\* the visible products of the cache at the instant t, in catalog order
VisibleAt(t) == SelectSeq(productsData, LAMBDA p : Visible(p, t))

ProductViews ==
  {"getAllActiveProducts", "getProductById", "getProductsByCategory",
   "getRecentlyAddedProducts", "getFeaturedProducts", "searchProducts",
   "getRelatedProducts"}

(***************************************************************************)
(* C1: once a loadAllData call has returned true, a later call returns     *)
(* true at once, issues no fetch and leaves the cached products,           *)
(* categories and home data as they are.                                   *)
(***************************************************************************)
C1_Memoized ==
  [][\A c \in Callers :
       ((\E d \in Callers : ret[d] = "true") /\ LoadCall(c))
         => /\ ret'[c] = "true"
            /\ pc'[c] = "idle"
            /\ fetchCount' = fetchCount
            /\ writes' = writes
            /\ cache' = cache]_vars

\* both callers have been answered true, the second from the memo
C1_Witness ==
  /\ \A c \in Callers : ret[c] = "true" /\ pc[c] = "idle"
  /\ calls >= 2
  /\ failures = 0
  /\ fetchCount = Len(DataFiles)
  /\ productsData = files.products

(***************************************************************************)
(* C2: whatever the interleaving of the loadAllData calls, as long as no   *)
(* call has failed the three files are fetched a single time and the       *)
(* cache is written a single time.                                         *)
(***************************************************************************)
C2_LoadedOnce ==
  failures = 0 => fetchCount <= Len(DataFiles) /\ writes <= 1

(***************************************************************************)
(* C3: every product a product view returns is a product of the cache that *)
(* is active and published at the time of the call.                        *)
(***************************************************************************)
C3_OnlyVisible ==
  result.op \in ProductViews =>
    \A i \in 1..Len(result.products) :
      /\ result.products[i] \in Range(productsData)
      /\ Visible(result.products[i], result.at)

\* a related product is returned while the cache holds a product that is
\* not to be shown
C3_Witness ==
  /\ result.op = "getRelatedProducts"
  /\ result.products # <<>>
  /\ \E i \in 1..Len(productsData) : ~Visible(productsData[i], result.at)

(***************************************************************************)
(* C4: getAllActiveProducts returns exactly the cached products that are   *)
(* active and either carry no publish_at or are scheduled for an IST time  *)
(* that has come, in catalog order.                                        *)
(***************************************************************************)
C4_ExactlyVisible ==
  result.op = "getAllActiveProducts" => result.products = VisibleAt(result.at)

\* called at the very minute a scheduled product is due: it is returned,
\* and another cached product is left out
C4_Witness ==
  /\ result.op = "getAllActiveProducts"
  /\ \E i \in 1..Len(result.products) :
       /\ result.products[i].publish_at.kind = "datetime"
       /\ IstWallClock(result.at) = result.products[i].publish_at.wall
  /\ Len(result.products) < Len(productsData)

(***************************************************************************)
(* C5 as stated: getProductById(id) returns a product with that id when    *)
(* the cache holds an active, published product with that id, and null     *)
(* otherwise, also when several entries share the id.                      *)
(***************************************************************************)
C5_AnyEntry ==
  result.op = "getProductById" =>
    IF \E i \in 1..Len(productsData) :
         productsData[i].id = result.args.id /\ Visible(productsData[i], result.at)
    THEN /\ Len(result.products) = 1
         /\ result.products[1].id = result.args.id
         /\ Visible(result.products[1], result.at)
    ELSE result.products = <<>>

(***************************************************************************)
(* C5 amended: getProductById(id) looks at the first entry of the catalog  *)
(* with that id only: it returns that entry when it is active and          *)
(* published, and null otherwise (no entry has the id, or the first one is *)
(* not to be shown).                                                       *)
(***************************************************************************)
C5_FirstEntry ==
  result.op = "getProductById" =>
    LET withId == SelectSeq(productsData, LAMBDA p : p.id = result.args.id)
    IN  IF withId # <<>> /\ Visible(Head(withId), result.at)
        THEN result.products = <<Head(withId)>>
        ELSE result.products = <<>>

\* null is returned for an id whose first entry is hidden and whose second
\* entry is to be shown
C5_Witness ==
  /\ result.op = "getProductById"
  /\ result.products = <<>>
  /\ Len(productsData) >= 2
  /\ productsData[1].id = result.args.id
  /\ productsData[2].id = result.args.id
  /\ ~Visible(productsData[1], result.at)
  /\ Visible(productsData[2], result.at)

(***************************************************************************)
(* C6: an active product whose publish_at is present but is not a valid    *)
(* date is shown: it appears in getAllActiveProducts.                      *)
(***************************************************************************)
C6_InvalidShown ==
  result.op = "getAllActiveProducts" =>
    \A i \in 1..Len(productsData) :
      (productsData[i].active = 1 /\ productsData[i].publish_at.kind = "invalid")
        => productsData[i] \in Range(result.products)

HasVisibleProduct(categoryId, t) ==
  \E i \in 1..Len(productsData) :
    productsData[i].category = categoryId /\ Visible(productsData[i], t)

C8_Categories ==
  /\ result.op = "getAllCategories" =>
       result.categories =
         SelectSeq(categoriesData, LAMBDA cat : HasVisibleProduct(cat.id, result.at))
  /\ result.op = "getCategoryConfig" =>
       IF \E i \in 1..Len(categoriesData) : categoriesData[i].id = result.args.category
       THEN /\ Len(result.categories) = 1
            /\ result.categories[1] \in Range(categoriesData)
            /\ result.categories[1].id = result.args.category
       ELSE result.categories = <<>>

\* getAllCategories leaves out a category of the file whose only product is
\* hidden, and keeps another
C8_Witness ==
  /\ result.op = "getAllCategories"
  /\ result.categories # <<>>
  /\ \E i \in 1..Len(categoriesData) :
       /\ categoriesData[i] \notin Range(result.categories)
       /\ \E j \in 1..Len(productsData) :
            productsData[j].category = categoriesData[i].id

(***************************************************************************)
(* C9: searchProducts returns nothing for an empty or blank query, and     *)
(* otherwise exactly the visible products one of whose name, description,  *)
(* category, sub_category or tags contains the query, trimmed and both     *)
(* sides lower-cased.                                                      *)
(***************************************************************************)
Lowered(s) == [i \in 1..Len(s) |-> IF s[i] = "A" THEN "a" ELSE s[i]]

Blank(s) == \A i \in 1..Len(s) : s[i] = " "

\* s without its leading and trailing spaces
Stripped(s) ==
  IF Blank(s) THEN <<>>
  ELSE LET solid == {i \in 1..Len(s) : s[i] # " "}
           first == CHOOSE i \in solid : \A j \in solid : i <= j
           last  == CHOOSE i \in solid : \A j \in solid : i >= j
       IN  SubSeq(s, first, last)

Contains(s, sub) ==
  \E i \in 0..Len(s) : \E j \in i..Len(s) : SubSeq(s, i + 1, j) = sub

Matches(p, term) ==
  \/ Contains(Lowered(p.name), term)
  \/ Contains(Lowered(p.description), term)
  \/ Contains(Lowered(p.category), term)
  \/ Contains(Lowered(p.sub_category), term)
  \/ \E t \in Range(p.tags) : Contains(Lowered(t), term)

C9_Search ==
  result.op = "searchProducts" =>
    IF Blank(result.args.query)
    THEN result.products = <<>>
    ELSE result.products =
           SelectSeq(productsData,
                     LAMBDA p : /\ Visible(p, result.at)
                                /\ Matches(p, Stripped(Lowered(result.args.query))))

\* a query in upper case finds one product, by a field in mixed case, and
\* leaves out another visible product
C9_Witness ==
  /\ result.op = "searchProducts"
  /\ result.args.query = <<"A", "A">>
  /\ Len(result.products) = 1
  /\ Len(VisibleAt(result.at)) = 2

(***************************************************************************)
(* C10: filterProducts keeps a product exactly when it carries all the     *)
(* selected tags (if any) and its sub_category is one of the selected      *)
(* sub-categories (if any); the result is the input with the other         *)
(* products struck out.                                                    *)
(***************************************************************************)
C10_Filter ==
  result.op = "filterProducts" =>
    result.products =
      SelectSeq(result.args.input,
                LAMBDA p :
                  /\ Range(result.args.tags) \subseteq Range(p.tags)
                  /\ \/ result.args.subcats = <<>>
                     \/ p.sub_category \in Range(result.args.subcats))

\* two tags are selected: a product with one of them is dropped, a product
\* with both is kept
C10_Witness ==
  /\ result.op = "filterProducts"
  /\ Len(result.args.tags) = 2
  /\ Len(result.products) = 1
  /\ \E i \in 1..Len(result.args.input) :
       /\ result.args.input[i] \notin Range(result.products)
       /\ Range(result.args.input[i].tags) \cap Range(result.args.tags) # {}

(***************************************************************************)
(* C11: getRecentlyAddedProducts(limit) returns at most limit visible      *)
(* products, newest first by added_date, and they are the newest ones: it  *)
(* is the head of the visible products put in some order of descending     *)
(* added_date, as long as limit allows.                                    *)
(***************************************************************************)
AddedOn(p) == p.added_date.wall

NewestFirst(arr) ==
  \A i, j \in 1..Len(arr) : i < j => AddedOn(arr[i]) >= AddedOn(arr[j])

\* the orders in which arr can be listed
Arrangements(arr) ==
  LET n == Len(arr)
      onto == {f \in [1..n -> 1..n] : \A k \in 1..n : \E i \in 1..n : f[i] = k}
  IN  {[i \in 1..n |-> arr[f[i]]] : f \in onto}

Min(a, b) == IF a < b THEN a ELSE b

OtherOfCategory(productId, category, t) ==
  SelectSeq(productsData,
            LAMBDA p : Visible(p, t) /\ p.category = category /\ p.id # productId)

\* arr takes each entry of pool at most once
TakenOnceFrom(arr, pool) ==
  \E f \in [1..Len(arr) -> 1..Len(pool)] :
    /\ \A i, j \in 1..Len(arr) : f[i] = f[j] => i = j
    /\ \A i \in 1..Len(arr) : arr[i] = pool[f[i]]

WritesCache(c) ==
  /\ pc[c] \in {"productsJson", "categoriesJson", "homeJson"}
  /\ pc'[c] # pc[c]

C13_Frame ==
  [][cache' # cache => (result' = result /\ \E c \in Callers : WritesCache(c))]_vars

\* getRecentlyAddedProducts has returned the catalog in another order than
\* the cache holds it, and the cache is as the file gave it
C13_Witness ==
  /\ result.op = "getRecentlyAddedProducts"
  /\ dataLoaded
  /\ productsData = files.products
  /\ Len(result.products) = 2
  /\ result.products[1] = productsData[2]
  /\ result.products[2] = productsData[1]


(***************************************************************************)
(* C14: on every page, when loadAllData has returned false the page shows  *)
(* its load-failure message and nothing of its initialisation happens: no  *)
(* product is rendered, no filter or sort handler (nor any other function  *)
(* of the script's body) is put on window, no search listener is attached. *)
(* The functions declared at the top level of the script, toggleFilters    *)
(* among them, are on window whatever the load returns.                    *)
(***************************************************************************)
C14_LoadFailure ==
  ret[1] = "false" =>
    /\ page.grid = <<>>
    /\ page.more = <<>>
    /\ page.base = <<>>
    /\ page.exposed \cap FilterSortHandlers = {}
    /\ page.exposed = TopLevelFunctions(page.kind)
    /\ "searchInput" \notin page.listeners
    /\ page.pc = "done" => page.errors = <<LoadFailureMessage(page.kind)>>

\* the picks page has shown its message after a load that failed on the
\* second body, with the products already in the cache
C14_Witness ==
  /\ page.kind = "picks"
  /\ page.pc = "done"
  /\ ret[1] = "false"
  /\ productsData # <<>>
  /\ page.errors = <<"Failed to load data. Please refresh the page.">>

(***************************************************************************)
(* C15: the category page ends in exactly one of five ways, decided in     *)
(* this order: no category parameter ('Category not specified', and no     *)
(* loadAllData call, no fetch), load failure, no category of that id       *)
(* ('Category not found'), no active published product in the category     *)
(* ('No products available in this category'); in these four it shows     *)
(* that one error, no product, and hides the filter sidebar. Otherwise it  *)
(* shows no error and renders products.                                    *)
(***************************************************************************)
CategoryGuard ==
  IF page.category = <<>> THEN "Category not specified"
  ELSE IF ret[1] = "false" THEN "Failed to load data. Please refresh the page."
  ELSE IF \A i \in 1..Len(categoriesData) : categoriesData[i].id # page.category
  THEN "Category not found"
  ELSE IF \A i \in 1..Len(productsData) :
            ~(Visible(productsData[i], now) /\ productsData[i].category = page.category)
  THEN "No products available in this category"
  ELSE "passed"

C15_Guards ==
  page.kind = "category" /\ page.pc = "done" =>
    /\ page.category = <<>> => calls = 0 /\ fetchCount = 0
    /\ IF CategoryGuard = "passed"
       THEN /\ page.errors = <<>>
            /\ page.grid # <<>>
            /\ ~page.sidebarHidden
       ELSE /\ page.errors = <<CategoryGuard>>
            /\ page.grid = <<>>
            /\ page.sidebarHidden

\* the category exists and the catalog holds a product of it, but none to
\* show
C15_Witness ==
  /\ page.kind = "category"
  /\ page.errors = <<"No products available in this category">>
  /\ page.sidebarHidden
  /\ \E i \in 1..Len(productsData) : productsData[i].category = page.category


(***************************************************************************)
(* C16: after any sequence of filter actions on a listing page, the        *)
(* products in the grid are exactly the base products (the list the page   *)
(* took at its initialisation) that satisfy every active criterion: the    *)
(* search query of the picks page when it is not empty, the selected       *)
(* categories, the selected sub-categories, all the selected tags.         *)
(***************************************************************************)
MatchesQuery(p, query) ==
  ~Blank(query) /\ Matches(p, Stripped(Lowered(query)))

SatisfiesCriteria(p) ==
  /\ page.kind = "picks" /\ page.searchQuery # <<>> => MatchesQuery(p, page.searchQuery)
  /\ page.selectedCategories # <<>> => p.category \in Range(page.selectedCategories)
  /\ page.selectedSubCategories # <<>> =>
       p.sub_category \in Range(page.selectedSubCategories)
  /\ \A tag \in Range(page.selectedTags) : tag \in Range(p.tags)

C16_Displayed ==
  page.kind \in ListingPages /\ page.pc = "done" /\ page.errors = <<>> =>
    Range(page.grid) = {p \in Range(page.base) : SatisfiesCriteria(p)}


====
